---- MODULE Spec2Model ----
(***************************************************************************)
(* Test orchestration of the Bloodray tool-test system: the two entry      *)
(* modules app/gui.py and app/guiExp.py (class TestApp), with the camera   *)
(* (app/camera.py), the stepper motor (app/motor.py) and the persistence   *)
(* call (app/db.py) they drive.                                            *)
(*                                                                         *)
(* Brightness is fixed-point: one unit is 0.001 grey level, so 1.0 is 1000 *)
(* and 255.0 is 255000.  A frame is the tuple of its grey pixels.          *)
(* Python's None is the integer None (-1) where the value is a number and  *)
(* the empty tuple where it is a frame.                                    *)
(*                                                                         *)
(* A handler run by the Tk thread is one step; a thread is a sequence of   *)
(* steps between the points where it can block or be overtaken.  A        *)
(* join(timeout=1.0) on a thread that can block in a camera read returns   *)
(* with the thread ended or still alive.  Three orderings rest on the      *)
(* sleeps of the code: camera_loop has executed camera.start() before      *)
(* run_test, after its joins and the sleep of at least 2 s, calls          *)
(* camera.stop(); a mist-jog worker that was told to stop has left its 1 s *)
(* ON sleep before the 2 s baseline loop ends; the analysis loop of        *)
(* guiExp.py, whose iteration never blocks, has ended when its join        *)
(* returns.  Of the acquisition threads of earlier runs that outlive their *)
(* join, one is followed.                                                  *)
(*                                                                         *)
(* Spec is the program with short runs; WindowSpec follows one run from    *)
(* the home screen through a longer analysis window; ModesSpec is the      *)
(* standalone modes of gui.py with its stop requests; JogRunSpec is the    *)
(* mist jog of gui.py next to the start of a run.  One iteration of an     *)
(* acquisition loop on its frame is one step.                              *)
(***************************************************************************)
EXTENDS Integers, Sequences, FiniteSets

\* ------------------------------------------------------------------ bounds
NumSamples == 1      \* baseline attempts per run (the code takes 40)
MaxReads == 1        \* camera reads the acquisition loops of one run make
MaxWindowFrames == 3 \* frames analysed in one run of WindowSpec
MaxStopCalls == 2    \* times in a row one stop request is made

\* ------------------------------------------------------- program constants
None == -1
MAX_BRIGHTNESS == 255000
SANITY_BOUND == 1000
GUARD_ABS == 100
GUARD_SIGMA == 3
GUARD_MEAN_ABS == 5000
GUARD_MEAN_SIGMA == 3
GUI_Q == 950
BASELINE_Q == 995
SEGMENTS_PER_REV == 4

NoFrame == <<>>

\* Frames the camera can deliver (grey pixels).  gui.py works near the sanity
\* bound of 1.0, guiExp.py near its guard band of 5.0 and, having no ambient
\* gate, up to a saturated frame.
GuiFrames == { <<0, 0>>, <<0, 200>>, <<1000, 1000>> }
ExpFrames == { <<0, 0>>, <<0, 10000>>, <<255000, 255000>> }

VARIABLES
    app,                 \* "gui" or "guiExp": the module whose TestApp runs
    screen,              \* the screen the container shows
    result_bind,         \* where a tap on the result screen leads
    after_cb,            \* callback scheduled with root.after(0, ...)
    closing,             \* TestApp._closing
    camera_open,         \* CameraReader.camera is an opened VideoCapture
    cam_running,         \* CameraReader._running
    cam_max_light,       \* CameraReader.max_light
    last_frame,          \* CameraReader.last_frame
    dynamic_threshold,   \* TestApp.dynamic_threshold
    effective_threshold, \* TestApp.effective_threshold
    heatmap_max,         \* TestApp._heatmap_max
    last_heatmap_path,   \* TestApp.last_heatmap_path names an existing PNG
    metrics,             \* TestApp.metrics
    mist_pin,            \* GPIO17: "UNSET" (input), "LOW" or "HIGH"
    lp_pc, lp_orphan,    \* live-preview worker; a worker whose join timed out
    jog_pc, jog_orphan,  \* mist-jog worker; a worker whose join timed out
    rt_pc,               \* position of the run_test thread
    samples,             \* run_test: the baseline sample list
    rt_i,                \* run_test: baseline attempts made
    verdict,             \* run_test: result_text
    cam_pc,              \* camera_loop thread of the current run
    z_pc,                \* a camera_loop thread an earlier run left behind
    mist_pc,             \* _mist_worker thread
    rot_pc, rot_seg,     \* _rotation_worker thread; rotate_90 calls returned
    grabber_running,     \* guiExp: TestApp._grabber_running
    grabber_alive,       \* guiExp: the grabber thread exists
    analysis_running,    \* guiExp: TestApp._analysis_running
    an_pc,               \* guiExp: analysis loop thread
    win_elapsed,         \* guiExp: perf_counter() has passed the loop's deadline
    saved,               \* the row save_run wrote for the current run
    save_raised,         \* save_run raised in the current run
    run_outcome,         \* the result screen the current run scheduled
    obs_max,             \* greatest frame mean processed in the analysis window
    in_window,           \* the analysis window of the current run is open
    seen,                \* frames analysed since the current run was started
    motor_failed,        \* StepperMotor() raised in the current run
    stop_req,            \* the stop request made last, "none" after another handler
    stop_count,          \* how many times in a row it has been made
    close_cleanups       \* calls of _gpio_cleanup made by on_close

vars == << app, screen, result_bind, after_cb, closing, camera_open, cam_running,
           cam_max_light, last_frame, dynamic_threshold, effective_threshold,
           heatmap_max, last_heatmap_path, metrics, mist_pin, lp_pc, lp_orphan,
           jog_pc, jog_orphan, rt_pc, samples, rt_i, verdict, cam_pc, z_pc,
           mist_pc, rot_pc, rot_seg, grabber_running, grabber_alive,
           analysis_running, an_pc, win_elapsed, saved, save_raised, run_outcome,
           obs_max, in_window, seen, motor_failed, stop_req, stop_count,
           close_cleanups >>

\* groups of variables an action leaves alone
stop_ghosts == << stop_req, stop_count, close_cleanups >>
guiModes   == << lp_pc, lp_orphan, jog_pc, jog_orphan, stop_ghosts >>
guiWorkers == << cam_pc, z_pc, mist_pc, rot_pc, rot_seg >>
expState   == << closing, grabber_running, grabber_alive, analysis_running, an_pc,
                 win_elapsed >>
gui_tk     == << screen, result_bind, after_cb >>
thresholds == << dynamic_threshold, effective_threshold >>
rt_locals  == << samples, rt_i, verdict >>
run_record == << saved, save_raised, run_outcome >>
ghosts     == << obs_max, in_window, seen, motor_failed >>

\* ----------------------------------------------------------------- helpers
Max(a, b) == IF a >= b THEN a ELSE b
Min(a, b) == IF a <= b THEN a ELSE b

RECURSIVE SumSeq(_)
SumSeq(s) == IF s = <<>> THEN 0 ELSE Head(s) + SumSeq(Tail(s))

RECURSIVE SumSq(_)
SumSq(s) == IF s = <<>> THEN 0 ELSE Head(s) * Head(s) + SumSq(Tail(s))

RECURSIVE MaxSeq(_)
MaxSeq(s) == IF s = <<>> THEN 0 ELSE Max(Head(s), MaxSeq(Tail(s)))

RECURSIVE Insert(_, _)
Insert(x, s) ==
    IF s = <<>> THEN << x >>
    ELSE IF x <= Head(s) THEN << x >> \o s
    ELSE << Head(s) >> \o Insert(x, Tail(s))

RECURSIVE Sorted(_)
Sorted(s) == IF s = <<>> THEN <<>> ELSE Insert(Head(s), Sorted(Tail(s)))

\* floor of the square root of v, known to be at most hi
RECURSIVE IsqrtBetween(_, _, _)
IsqrtBetween(v, lo, hi) ==
    IF lo >= hi THEN lo
    ELSE LET mid == (lo + hi + 1) \div 2
         IN  IF mid * mid <= v THEN IsqrtBetween(v, mid, hi)
             ELSE IsqrtBetween(v, lo, mid - 1)

Isqrt(v, hi) == IsqrtBetween(v, 0, hi)

\* np.mean of the grey image
FrameMean(f) == SumSeq(f) \div Len(f)

\* np.maximum(a, b): pixel-wise maximum
PixMax(a, b) == [i \in 1..Len(a) |-> Max(a[i], b[i])]

\* np.percentile(s, q), q in per-mille, linear interpolation
Percentile(s, q) ==
    LET a    == Sorted(s)
        n    == Len(a)
        pos  == (n - 1) * q
        lo   == pos \div 1000
        frac == pos % 1000
        hi   == Min(lo + 1, n - 1)
    IN  a[lo + 1] + (frac * (a[hi + 1] - a[lo + 1])) \div 1000

RECURSIVE MinSeq(_)
MinSeq(s) == IF Len(s) = 1 THEN Head(s) ELSE Min(Head(s), MinSeq(Tail(s)))

\* np.std(s, ddof=1) for len(s) > 1, else 0.0.  numpy works in floating point;
\* here the deviations from the least sample are squared, in a unit coarse
\* enough for the sums to stay within 32-bit integers (the unit is 0.001 for
\* spreads up to 15.0).
SampleStd(s) ==
    LET n    == Len(s)
        lo   == MinSeq(s)
        unit == ((MaxSeq(s) - lo) \div 15000) + 1
        d    == [i \in 1..n |-> (s[i] - lo) \div unit]
    IN  IF n > 1
        THEN unit * Isqrt((n * SumSq(d) - SumSeq(d) * SumSeq(d)) \div (n * (n - 1)),
                          MaxSeq(d))
        ELSE 0

Frames == IF app = "gui" THEN GuiFrames ELSE ExpFrames

\* ------------------------------------------------------------ TestApp state
NewMetrics ==
    [ frames_total |-> 0, frames_baseline |-> 0, frames_analysis |-> 0,
      read_errors |-> 0, baseline_p95 |-> None, guard_band |-> None,
      effective_threshold |-> None, first_exceed_time |-> None,
      max_brightness |-> 0, rotation_time_accum |-> 0,
      analysis_start |-> FALSE, analysis_end |-> FALSE,
      heatmap_png_path |-> FALSE, pct_frame_above_threshold |-> None ]

NoRow == [ status |-> "none" ]

\* db.save_run: the row written from the arguments and the metrics dict
SavedRow(status, m, dyn, guard, eff) ==
    [ status |-> status, baseline_p95 |-> dyn, guard_band |-> guard,
      effective_threshold |-> eff, max_brightness |-> m.max_brightness,
      frames_total |-> m.frames_total, frames_baseline |-> m.frames_baseline,
      frames_analysis |-> m.frames_analysis, read_errors |-> m.read_errors,
      rotation_time_accum |-> m.rotation_time_accum,
      first_exceed_time |-> m.first_exceed_time,
      heatmap_png_path |-> m.heatmap_png_path ]

Init ==
    /\ app \in {"gui", "guiExp"}
    /\ screen = "home"
    /\ result_bind = "home"
    /\ after_cb = "none"
    /\ closing = FALSE
    /\ camera_open = FALSE
    /\ cam_running = FALSE
    /\ cam_max_light = 0
    /\ last_frame = NoFrame
    /\ dynamic_threshold = None
    /\ effective_threshold = None
    /\ heatmap_max = NoFrame
    /\ last_heatmap_path = FALSE
    /\ metrics = NewMetrics
    \* guiExp.py sets the relay pin up in __init__, gui.py in its first worker
    /\ mist_pin = (IF app = "gui" THEN "UNSET" ELSE "LOW")
    /\ lp_pc = "none" /\ lp_orphan = FALSE
    /\ jog_pc = "none" /\ jog_orphan = FALSE
    /\ rt_pc = "none" /\ samples = <<>> /\ rt_i = 0 /\ verdict = "none"
    /\ cam_pc = "none" /\ z_pc = "none"
    /\ mist_pc = "none" /\ rot_pc = "none" /\ rot_seg = 0
    /\ grabber_running = FALSE /\ grabber_alive = FALSE
    /\ analysis_running = FALSE /\ an_pc = "none" /\ win_elapsed = FALSE
    /\ saved = NoRow /\ save_raised = FALSE /\ run_outcome = "none"
    /\ obs_max = 0 /\ in_window = FALSE /\ seen = {} /\ motor_failed = FALSE
    /\ stop_req = "none" /\ stop_count = 0 /\ close_cleanups = 0

\* ---------------------------------------------------------------- camera.py
\* CameraReader.open_camera: the device may fail to open unless already open
OpenOutcomes == IF camera_open THEN {TRUE} ELSE BOOLEAN

\* CameraReader.read_frame raising: the device stays as it was, or was opened
\* by the call before the read failed
ReadFailOutcomes == {camera_open, TRUE}

\* ------------------------------------------------- gui.py: standalone modes
\* join(timeout=1.0) of the live-preview worker can time out while the worker
\* is alive (it blocks in read_frame)
LpTimeouts == IF lp_pc = "none" \/ lp_orphan THEN {FALSE} ELSE BOOLEAN

\* join(timeout=1.0) of the mist-jog worker can time out only in its 1.0 s ON
\* sleep
JogTimeouts == IF jog_pc = "on" /\ ~jog_orphan THEN BOOLEAN ELSE {FALSE}

\* _stop_live_preview_thread: set the event, join, forget the thread.  A worker
\* that ends within the join closes the camera in its finally.
stop_live_preview_thread(to) ==
    /\ lp_pc' = "none"
    /\ lp_orphan' = (lp_orphan \/ (lp_pc # "none" /\ to))

CameraAfterLpStop(to) == IF lp_pc # "none" /\ ~to THEN FALSE ELSE camera_open

\* _stop_mist_jog_thread: set the event, join, forget the thread.  A worker
\* that ends within the join has driven the relay pin LOW on its way out.
stop_mist_jog_thread(to) ==
    /\ jog_pc' = "none"
    /\ jog_orphan' = (jog_orphan \/ (jog_pc = "on" /\ to))

PinAfterJogStop(to) ==
    IF jog_pc \in {"none", "dead"} \/ to THEN mist_pin
    ELSE IF jog_pc = "start" THEN "LOW"
    ELSE IF mist_pin = "UNSET" THEN "UNSET" ELSE "LOW"

\* a handler other than a bare stop request has run
no_stop_request ==
    stop_req' = "none" /\ stop_count' = 0 /\ UNCHANGED close_cleanups

\* clear_screen followed by the widgets of the home screen
show_home_screen(lpTo, jogTo) ==
    /\ stop_live_preview_thread(lpTo)
    /\ stop_mist_jog_thread(jogTo)
    /\ camera_open' = CameraAfterLpStop(lpTo)
    /\ mist_pin' = PinAfterJogStop(jogTo)
    /\ screen' = "home"
    /\ no_stop_request
    /\ UNCHANGED << app, result_bind, after_cb, expState, cam_running, cam_max_light,
                    last_frame, thresholds, heatmap_max, last_heatmap_path, metrics,
                    rt_pc, rt_locals, guiWorkers, run_record, ghosts >>

start_live_preview ==
    /\ app = "gui" /\ screen = "home"
    /\ \E lpTo \in LpTimeouts, jogTo \in JogTimeouts :
         /\ stop_mist_jog_thread(jogTo)
         /\ lp_orphan' = (lp_orphan \/ (lp_pc # "none" /\ lpTo))
         /\ camera_open' = CameraAfterLpStop(lpTo)
         /\ mist_pin' = PinAfterJogStop(jogTo)
    /\ lp_pc' = "start"
    /\ screen' = "live_preview"
    /\ no_stop_request
    /\ UNCHANGED << app, result_bind, after_cb, expState, cam_running, cam_max_light,
                    last_frame, thresholds, heatmap_max, last_heatmap_path, metrics,
                    rt_pc, rt_locals, guiWorkers, run_record, ghosts >>

end_live_preview ==
    /\ app = "gui" /\ screen = "live_preview"
    /\ \E lpTo \in LpTimeouts, jogTo \in JogTimeouts : show_home_screen(lpTo, jogTo)

live_preview_open ==
    /\ lp_pc = "start"
    /\ \E ok \in OpenOutcomes :
         /\ camera_open' = ok
         /\ lp_pc' = IF ok THEN "loop" ELSE "none"
    /\ UNCHANGED << app, gui_tk, expState, cam_running, cam_max_light, last_frame,
                    thresholds, heatmap_max, last_heatmap_path, metrics, mist_pin,
                    lp_orphan, jog_pc, jog_orphan, rt_pc, rt_locals, guiWorkers,
                    run_record, ghosts, stop_ghosts >>

\* variant of live_preview_frame: the worker also feeds the heatmap accumulator
live_preview_frame_accumulates ==
    /\ lp_pc = "loop"
    /\ \E f \in Frames : last_frame' = f /\ heatmap_max' = f
    /\ camera_open' = TRUE
    /\ UNCHANGED << app, gui_tk, expState, cam_running, cam_max_light, thresholds,
                    last_heatmap_path, metrics, mist_pin, guiModes,
                    rt_pc, rt_locals, guiWorkers, run_record, ghosts >>

live_preview_frame ==
    /\ lp_pc = "loop"
    /\ \E f \in Frames : last_frame' = f
    /\ camera_open' = TRUE
    /\ UNCHANGED << app, gui_tk, expState, cam_running, cam_max_light, thresholds,
                    heatmap_max, last_heatmap_path, metrics, mist_pin, guiModes,
                    rt_pc, rt_locals, guiWorkers, run_record, ghosts >>

\* a worker whose join timed out: its read returns, it sees the event and
\* closes the camera
live_preview_orphan_exit ==
    /\ lp_orphan
    /\ lp_orphan' = FALSE
    /\ \E f \in Frames \cup {last_frame} : last_frame' = f
    /\ camera_open' = FALSE
    /\ UNCHANGED << app, gui_tk, expState, cam_running, cam_max_light, thresholds,
                    heatmap_max, last_heatmap_path, metrics, mist_pin, lp_pc, jog_pc,
                    jog_orphan, rt_pc, rt_locals, guiWorkers, run_record, ghosts, stop_ghosts >>

start_mist_jog ==
    /\ app = "gui" /\ screen = "home"
    /\ \E lpTo \in LpTimeouts, jogTo \in JogTimeouts :
         /\ stop_live_preview_thread(lpTo)
         /\ jog_orphan' = (jog_orphan \/ (jog_pc = "on" /\ jogTo))
         /\ camera_open' = CameraAfterLpStop(lpTo)
         /\ mist_pin' = PinAfterJogStop(jogTo)
    /\ jog_pc' = "start"
    /\ screen' = "mist_jog"
    /\ no_stop_request
    /\ UNCHANGED << app, result_bind, after_cb, expState, cam_running, cam_max_light,
                    last_frame, thresholds, heatmap_max, last_heatmap_path, metrics,
                    rt_pc, rt_locals, guiWorkers, run_record, ghosts >>

stop_mist_jog ==
    /\ app = "gui" /\ screen = "mist_jog"
    /\ \E lpTo \in LpTimeouts, jogTo \in JogTimeouts : show_home_screen(lpTo, jogTo)

\* GPIO.output on the relay pin raises when the channel is not an output
mist_jog_step ==
    /\ jog_pc \in {"start", "off", "on"}
    /\ IF jog_pc = "start" THEN mist_pin' = "LOW" /\ jog_pc' = "off"
       ELSE IF mist_pin = "UNSET" THEN mist_pin' = mist_pin /\ jog_pc' = "dead"
       ELSE IF jog_pc = "off" THEN mist_pin' = "HIGH" /\ jog_pc' = "on"
       ELSE mist_pin' = "LOW" /\ jog_pc' = "off"
    /\ UNCHANGED << app, gui_tk, expState, camera_open, cam_running, cam_max_light,
                    last_frame, thresholds, heatmap_max, last_heatmap_path, metrics,
                    lp_pc, lp_orphan, jog_orphan, rt_pc, rt_locals, guiWorkers,
                    run_record, ghosts, stop_ghosts >>

\* a worker whose join timed out leaves its ON sleep and switches the relay off
mist_jog_orphan_exit ==
    /\ jog_orphan
    /\ jog_orphan' = FALSE
    /\ mist_pin' = IF mist_pin = "UNSET" THEN "UNSET" ELSE "LOW"
    /\ UNCHANGED << app, gui_tk, expState, camera_open, cam_running, cam_max_light,
                    last_frame, thresholds, heatmap_max, last_heatmap_path, metrics,
                    lp_pc, lp_orphan, jog_pc, rt_pc, rt_locals, guiWorkers,
                    run_record, ghosts, stop_ghosts >>

\* ------------------------------------------------ gui.py: stop requests
\* a stop request made on its own, up to MaxStopCalls times in a row
stop_request(op) ==
    /\ stop_req = op => stop_count < MaxStopCalls
    /\ stop_req' = op
    /\ stop_count' = IF stop_req = op THEN stop_count + 1 ELSE 1

call_stop_mist_jog_thread ==
    /\ app = "gui"
    /\ stop_request("_stop_mist_jog_thread")
    /\ \E jogTo \in JogTimeouts :
         /\ stop_mist_jog_thread(jogTo)
         /\ mist_pin' = PinAfterJogStop(jogTo)
    /\ UNCHANGED << app, gui_tk, expState, camera_open, cam_running, cam_max_light,
                    last_frame, thresholds, heatmap_max, last_heatmap_path, metrics,
                    lp_pc, lp_orphan, close_cleanups, rt_pc, rt_locals, guiWorkers,
                    run_record, ghosts >>

call_stop_live_preview_thread ==
    /\ app = "gui"
    /\ stop_request("_stop_live_preview_thread")
    /\ \E lpTo \in LpTimeouts :
         /\ stop_live_preview_thread(lpTo)
         /\ camera_open' = CameraAfterLpStop(lpTo)
    /\ UNCHANGED << app, gui_tk, expState, cam_running, cam_max_light, last_frame,
                    thresholds, heatmap_max, last_heatmap_path, metrics, mist_pin,
                    jog_pc, jog_orphan, close_cleanups, rt_pc, rt_locals, guiWorkers,
                    run_record, ghosts >>

\* CameraReader.stop
call_camera_stop ==
    /\ app = "gui"
    /\ stop_request("camera.stop")
    /\ cam_running' = FALSE
    /\ UNCHANGED << app, gui_tk, expState, camera_open, cam_max_light, last_frame,
                    thresholds, heatmap_max, last_heatmap_path, metrics, mist_pin,
                    lp_pc, lp_orphan, jog_pc, jog_orphan, close_cleanups, rt_pc,
                    rt_locals, guiWorkers, run_record, ghosts >>

\* on_close without the _closing test
on_close_unguarded ==
    /\ app = "gui"
    /\ stop_request("on_close")
    /\ close_cleanups <= MaxStopCalls
    /\ \E lpTo \in LpTimeouts, jogTo \in JogTimeouts :
         /\ stop_live_preview_thread(lpTo)
         /\ stop_mist_jog_thread(jogTo)
    /\ closing' = TRUE
    /\ cam_running' = FALSE
    /\ camera_open' = FALSE
    /\ mist_pin' = "UNSET"
    /\ close_cleanups' = close_cleanups + 1
    /\ UNCHANGED << app, gui_tk, grabber_running, grabber_alive, analysis_running,
                    an_pc, win_elapsed, cam_max_light, last_frame, thresholds,
                    heatmap_max, last_heatmap_path, metrics, rt_pc, rt_locals,
                    guiWorkers, run_record, ghosts >>

\* on_close: returns at once when _closing is set; otherwise stops both
\* standalone workers, calls camera.stop and close_camera, and GPIO.cleanup
\* makes the relay pin an input again
on_close ==
    /\ app = "gui"
    /\ stop_request("on_close")
    /\ IF closing
       THEN UNCHANGED << closing, lp_pc, lp_orphan, jog_pc, jog_orphan, cam_running,
                         camera_open, mist_pin, close_cleanups >>
       ELSE /\ \E lpTo \in LpTimeouts, jogTo \in JogTimeouts :
                 /\ stop_live_preview_thread(lpTo)
                 /\ stop_mist_jog_thread(jogTo)
            /\ closing' = TRUE
            /\ cam_running' = FALSE
            /\ camera_open' = FALSE
            /\ mist_pin' = "UNSET"
            /\ close_cleanups' = close_cleanups + 1
    /\ UNCHANGED << app, gui_tk, grabber_running, grabber_alive, analysis_running,
                    an_pc, win_elapsed, cam_max_light, last_frame, thresholds,
                    heatmap_max, last_heatmap_path, metrics, rt_pc, rt_locals,
                    guiWorkers, run_record, ghosts >>

\* ------------------------------------------------ gui.py: result screens
\* the callback run_test scheduled with root.after(0, ...)
after_callback ==
    /\ app = "gui" /\ after_cb # "none"
    /\ \E lpTo \in LpTimeouts, jogTo \in JogTimeouts :
         /\ stop_live_preview_thread(lpTo)
         /\ stop_mist_jog_thread(jogTo)
         /\ camera_open' = CameraAfterLpStop(lpTo)
         /\ mist_pin' = PinAfterJogStop(jogTo)
    /\ screen' = IF after_cb = "seal" THEN "seal_warning" ELSE "result"
    /\ result_bind' = IF after_cb # "seal" /\ last_heatmap_path THEN "heatmap" ELSE "home"
    /\ after_cb' = "none"
    /\ no_stop_request
    /\ UNCHANGED << app, expState, cam_running, cam_max_light, last_frame, thresholds,
                    heatmap_max, last_heatmap_path, metrics, rt_pc, rt_locals,
                    guiWorkers, run_record, ghosts >>

tap_seal_warning ==
    /\ app = "gui" /\ screen = "seal_warning"
    /\ \E lpTo \in LpTimeouts, jogTo \in JogTimeouts : show_home_screen(lpTo, jogTo)

tap_result ==
    /\ app = "gui" /\ screen = "result"
    /\ \E lpTo \in LpTimeouts, jogTo \in JogTimeouts :
         IF result_bind = "heatmap"
         THEN /\ stop_live_preview_thread(lpTo)
              /\ stop_mist_jog_thread(jogTo)
              /\ camera_open' = CameraAfterLpStop(lpTo)
              /\ mist_pin' = PinAfterJogStop(jogTo)
              /\ screen' = "heatmap"
              /\ UNCHANGED << app, result_bind, after_cb, expState, cam_running,
                              cam_max_light, last_frame, thresholds, heatmap_max,
                              last_heatmap_path, metrics, rt_pc, rt_locals,
                              guiWorkers, run_record, ghosts >>
              /\ no_stop_request
         ELSE show_home_screen(lpTo, jogTo)

tap_heatmap ==
    /\ app = "gui" /\ screen = "heatmap"
    /\ \E lpTo \in LpTimeouts, jogTo \in JogTimeouts : show_home_screen(lpTo, jogTo)

\* ------------------------------------------------------ gui.py: a test run
\* run_test: baseline statistics and thresholds from the sample list
GuiThreshold(s) ==
    IF s = <<>>
    THEN [ dyn |-> MAX_BRIGHTNESS, p95 |-> None, guard |-> None,
           eff |-> MAX_BRIGHTNESS ]
    ELSE LET dyn   == Percentile(s, GUI_Q)
             guard == Max(GUARD_ABS, GUARD_SIGMA * SampleStd(s))
         IN  [ dyn |-> dyn, p95 |-> dyn, guard |-> guard, eff |-> dyn + guard ]

\* variant of AbortGate: a strict comparison with the sanity bound
AbortGateStrict(thr_check) == thr_check # None /\ thr_check > SANITY_BOUND

\* run_test: the early-abort condition on the baseline
AbortGate(thr_check) == thr_check # None /\ thr_check >= SANITY_BOUND

\* run_test: thr = effective_threshold if not None else dynamic_threshold
VerdictThreshold ==
    IF effective_threshold # None THEN effective_threshold ELSE dynamic_threshold

\* variant of TestFailed: equality counts as a failure
TestFailedAtEquality(max_light, thr) == thr # None /\ max_light >= thr

\* run_test: test_failed
TestFailed(max_light, thr) == thr # None /\ max_light > thr

\* run_test: guard_val handed to save_run
GuardVal ==
    IF effective_threshold # None /\ dynamic_threshold # None
    THEN effective_threshold - dynamic_threshold ELSE None

\* _finalize_heatmap_and_metrics: the PNG path and the share of pixels over thr
FinalizeHeatmap(ok, thr) ==
    IF heatmap_max = NoFrame \/ ~ok
    THEN [ path |-> FALSE, pct |-> 0 ]
    ELSE LET over == Cardinality({ i \in 1..Len(heatmap_max) :
                                     thr # None /\ heatmap_max[i] > thr })
         IN  [ path |-> TRUE, pct |-> (100 * over) \div Len(heatmap_max) ]

RunTestAlive == rt_pc \notin {"none", "done", "dead"}
WorkersAlive ==
    \/ cam_pc \in {"start", "loop", "read"}
    \/ mist_pc \in {"start", "sleep"}
    \/ rot_pc \in {"start", "rotating"}
    \/ z_pc \in {"loop", "read"}
    \/ an_pc = "loop"

start_test_thread ==
    /\ app = "gui" /\ screen = "home"
    \* one acquisition thread of an earlier run is followed, not more
    /\ cam_pc \in {"loop", "read"} => z_pc = "none"
    /\ \E lpTo \in LpTimeouts, jogTo \in JogTimeouts :
         /\ stop_live_preview_thread(lpTo)
         /\ stop_mist_jog_thread(jogTo)
         /\ mist_pin' = PinAfterJogStop(jogTo)
         \* show_progress_screen: start_camera_preview opens the camera
         /\ \E ok \in BOOLEAN : camera_open' = (CameraAfterLpStop(lpTo) \/ ok)
    /\ screen' = "progress"
    /\ metrics' = NewMetrics
    /\ heatmap_max' = NoFrame
    /\ last_heatmap_path' = FALSE
    /\ rt_pc' = "open" /\ samples' = <<>> /\ rt_i' = 0 /\ verdict' = "none"
    /\ z_pc' = IF cam_pc \in {"loop", "read"} THEN cam_pc ELSE z_pc
    /\ cam_pc' = "none" /\ mist_pc' = "none" /\ rot_pc' = "none" /\ rot_seg' = 0
    /\ saved' = NoRow /\ save_raised' = FALSE /\ run_outcome' = "none"
    /\ obs_max' = 0 /\ in_window' = FALSE /\ seen' = {} /\ motor_failed' = FALSE
    /\ no_stop_request
    /\ UNCHANGED << app, result_bind, after_cb, expState, cam_running, cam_max_light,
                    last_frame, thresholds >>

run_test_open ==
    /\ app = "gui" /\ rt_pc = "open"
    /\ \E ok \in OpenOutcomes : camera_open' = ok
    /\ rt_pc' = "baseline"
    /\ UNCHANGED << app, gui_tk, expState, cam_running, cam_max_light, last_frame,
                    thresholds, heatmap_max, last_heatmap_path, metrics, mist_pin,
                    guiModes, rt_locals, guiWorkers, run_record, ghosts >>

\* the baseline increment made without the lock: frames_total is written back
\* from a value read before a camera_loop thread's increment
run_test_baseline_frame_unlocked ==
    /\ app = "gui" /\ rt_pc = "baseline" /\ rt_i < NumSamples
    /\ \E f \in Frames :
         /\ last_frame' = f
         /\ samples' = Append(samples, FrameMean(f))
    /\ camera_open' = TRUE
    /\ metrics' = [metrics EXCEPT !.frames_total = metrics.frames_baseline + 1,
                                  !.frames_baseline = @ + 1]
    /\ rt_i' = rt_i + 1
    /\ UNCHANGED << app, gui_tk, expState, cam_running, cam_max_light, thresholds,
                    heatmap_max, last_heatmap_path, mist_pin, guiModes, rt_pc,
                    verdict, guiWorkers, run_record, ghosts >>

run_test_baseline_frame ==
    /\ app = "gui" /\ rt_pc = "baseline" /\ rt_i < NumSamples
    /\ \E f \in Frames :
         /\ last_frame' = f
         /\ samples' = Append(samples, FrameMean(f))
    /\ camera_open' = TRUE
    /\ metrics' = [metrics EXCEPT !.frames_total = @ + 1, !.frames_baseline = @ + 1]
    /\ rt_i' = rt_i + 1
    /\ UNCHANGED << app, gui_tk, expState, cam_running, cam_max_light, thresholds,
                    heatmap_max, last_heatmap_path, mist_pin, guiModes, rt_pc,
                    verdict, guiWorkers, run_record, ghosts >>

run_test_baseline_error ==
    /\ app = "gui" /\ rt_pc = "baseline" /\ rt_i < NumSamples
    /\ \E o \in ReadFailOutcomes : camera_open' = o
    /\ metrics' = [metrics EXCEPT !.read_errors = @ + 1]
    /\ rt_i' = rt_i + 1
    /\ UNCHANGED << app, gui_tk, expState, cam_running, cam_max_light, last_frame,
                    thresholds, heatmap_max, last_heatmap_path, mist_pin, guiModes,
                    rt_pc, samples, verdict, guiWorkers, run_record, ghosts >>

\* the baseline loop takes num_samples * 0.05 s = 2 s, longer than a mist-jog
\* worker needs to leave its ON sleep after its event was set
run_test_threshold ==
    /\ app = "gui" /\ rt_pc = "baseline" /\ rt_i = NumSamples
    /\ ~jog_orphan
    /\ LET t == GuiThreshold(samples)
       IN  /\ dynamic_threshold' = t.dyn
           /\ effective_threshold' = t.eff
           /\ metrics' = [metrics EXCEPT !.baseline_p95 = t.p95,
                                         !.guard_band = t.guard,
                                         !.effective_threshold = t.eff]
    /\ rt_pc' = "gate"
    /\ UNCHANGED << app, gui_tk, expState, camera_open, cam_running, cam_max_light,
                    last_frame, heatmap_max, last_heatmap_path, mist_pin, guiModes,
                    rt_locals, guiWorkers, run_record, ghosts >>

\* the abort branch: finalize, save_run (which may raise), release the camera,
\* schedule the seal-warning screen, return
run_test_abort ==
    /\ app = "gui" /\ rt_pc = "gate"
    /\ AbortGate(dynamic_threshold)
    /\ LET m == [metrics EXCEPT !.max_brightness = cam_max_light,
                                !.guard_band = IF GuardVal # None THEN GuardVal ELSE @,
                                !.effective_threshold =
                                    IF GuardVal # None THEN VerdictThreshold ELSE @]
       IN  /\ metrics' = m
           /\ \E ok \in BOOLEAN :
                /\ saved' = IF ok
                            THEN SavedRow("ABORTED_SEAL_WARNING", m, dynamic_threshold,
                                          GuardVal, VerdictThreshold)
                            ELSE saved
                /\ save_raised' = ~ok
    /\ cam_running' = FALSE
    /\ camera_open' = FALSE
    /\ after_cb' = "seal"
    /\ run_outcome' = "ABORTED_SEAL_WARNING"
    /\ rt_pc' = "done"
    /\ UNCHANGED << app, screen, result_bind, expState, cam_max_light, last_frame,
                    thresholds, heatmap_max, last_heatmap_path, mist_pin, guiModes,
                    rt_locals, guiWorkers, ghosts >>

\* variant of run_test_start_workers: the workers start ahead of the baseline
run_test_start_workers_early ==
    /\ app = "gui" /\ rt_pc = "baseline" /\ rt_i = 0
    /\ metrics' = [metrics EXCEPT !.analysis_start = TRUE]
    /\ cam_pc' = "start" /\ mist_pc' = "start" /\ rot_pc' = "start"
    /\ rt_pc' = "join_mist"
    /\ UNCHANGED << app, gui_tk, expState, camera_open, cam_running, cam_max_light,
                    last_frame, thresholds, heatmap_max, last_heatmap_path, mist_pin,
                    guiModes, rt_locals, z_pc, rot_seg, run_record, ghosts >>

run_test_start_workers ==
    /\ app = "gui" /\ rt_pc = "gate"
    /\ ~AbortGate(dynamic_threshold)
    /\ metrics' = [metrics EXCEPT !.analysis_start = TRUE]
    /\ cam_pc' = "start" /\ mist_pc' = "start" /\ rot_pc' = "start"
    /\ rt_pc' = "join_mist"
    /\ UNCHANGED << app, gui_tk, expState, camera_open, cam_running, cam_max_light,
                    last_frame, thresholds, heatmap_max, last_heatmap_path, mist_pin,
                    guiModes, rt_locals, z_pc, rot_seg, run_record, ghosts >>

\* mist_thread.join()
run_test_join_mist ==
    /\ app = "gui" /\ rt_pc = "join_mist"
    /\ mist_pc \in {"done", "dead"}
    /\ rt_pc' = "join_rotation"
    /\ UNCHANGED << app, gui_tk, expState, camera_open, cam_running, cam_max_light,
                    last_frame, thresholds, heatmap_max, last_heatmap_path, metrics,
                    mist_pin, guiModes, rt_locals, guiWorkers, run_record, ghosts >>

\* rotation_thread.join()
run_test_join_rotation ==
    /\ app = "gui" /\ rt_pc = "join_rotation"
    /\ rot_pc \in {"done", "dead"}
    /\ rt_pc' = "stop_camera"
    /\ UNCHANGED << app, gui_tk, expState, camera_open, cam_running, cam_max_light,
                    last_frame, thresholds, heatmap_max, last_heatmap_path, metrics,
                    mist_pin, guiModes, rt_locals, guiWorkers, run_record, ghosts >>

\* time.sleep(extra_analysis_s), at least 2 s, then camera.stop(): by then the
\* camera_loop thread has executed camera.start()
run_test_stop_camera ==
    /\ app = "gui" /\ rt_pc = "stop_camera"
    /\ cam_pc # "start"
    /\ cam_running' = FALSE
    /\ rt_pc' = "join_camera"
    /\ UNCHANGED << app, gui_tk, expState, camera_open, cam_max_light, last_frame,
                    thresholds, heatmap_max, last_heatmap_path, metrics, mist_pin,
                    guiModes, rt_locals, guiWorkers, run_record, ghosts >>

\* camera_thread.join(timeout=1.0) returns with the thread ended or still alive;
\* then analysis_end, max_brightness and the verdict
run_test_collect ==
    /\ app = "gui" /\ rt_pc = "join_camera"
    /\ metrics' = [metrics EXCEPT !.analysis_end = TRUE,
                                  !.max_brightness = cam_max_light]
    /\ verdict' = IF TestFailed(cam_max_light, VerdictThreshold)
                  THEN "FAILED" ELSE "PASSED"
    /\ in_window' = FALSE
    /\ rt_pc' = "save"
    /\ UNCHANGED << app, gui_tk, expState, camera_open, cam_running, cam_max_light,
                    last_frame, thresholds, heatmap_max, last_heatmap_path, mist_pin,
                    guiModes, samples, rt_i, guiWorkers, run_record, obs_max, seen, motor_failed >>

\* heatmap finalisation, save_run (which may raise and end the thread), and the
\* result screen scheduled on the Tk thread
run_test_save ==
    /\ app = "gui" /\ rt_pc = "save"
    /\ \E hm \in (IF heatmap_max = NoFrame THEN {TRUE} ELSE BOOLEAN), ok \in BOOLEAN :
         LET h == FinalizeHeatmap(hm, VerdictThreshold)
             m == [metrics EXCEPT !.heatmap_png_path = h.path,
                                  !.pct_frame_above_threshold = h.pct]
         IN  /\ metrics' = m
             /\ last_heatmap_path' = h.path
             /\ saved' = IF ok
                         THEN SavedRow(verdict, m, dynamic_threshold, GuardVal,
                                       VerdictThreshold)
                         ELSE saved
             /\ save_raised' = ~ok
             /\ after_cb' = IF ok THEN verdict ELSE after_cb
             /\ run_outcome' = IF ok THEN verdict ELSE run_outcome
             /\ rt_pc' = IF ok THEN "done" ELSE "dead"
    /\ UNCHANGED << app, screen, result_bind, expState, camera_open, cam_running,
                    cam_max_light, last_frame, thresholds, heatmap_max, mist_pin,
                    guiModes, rt_locals, guiWorkers, ghosts >>

\* ------------------------------------------------------ gui.py: camera_loop
\* one pass of the loop body on frame f: heatmap, max_light, counters and the
\* first-exceed latch
\* variant of AnalyseFrame: first_exceed_time is written at every frame over
\* the threshold
AnalyseFrameNoLatch(f) ==
    LET lv == FrameMean(f)
        n  == metrics.frames_analysis + 1
    IN  /\ heatmap_max' = IF heatmap_max = NoFrame THEN f ELSE PixMax(heatmap_max, f)
        /\ cam_max_light' = IF lv > cam_max_light THEN lv ELSE cam_max_light
        /\ metrics' = [metrics EXCEPT
                         !.frames_total = @ + 1,
                         !.frames_analysis = n,
                         !.first_exceed_time =
                             IF /\ effective_threshold # None
                                /\ lv > effective_threshold
                                /\ metrics.analysis_start
                             THEN n ELSE @]
        /\ obs_max' = IF in_window THEN Max(obs_max, lv) ELSE obs_max
        /\ seen' = seen \cup {f}

\* variant of AnalyseFrame: the accumulator keeps the frame of greater mean
AnalyseFrameBrighterFrame(f) ==
    LET lv == FrameMean(f)
        n  == metrics.frames_analysis + 1
    IN  /\ heatmap_max' = IF heatmap_max = NoFrame \/ lv > FrameMean(heatmap_max)
                          THEN f ELSE heatmap_max
        /\ cam_max_light' = IF lv > cam_max_light THEN lv ELSE cam_max_light
        /\ metrics' = [metrics EXCEPT
                         !.frames_total = @ + 1,
                         !.frames_analysis = n,
                         !.first_exceed_time =
                             IF /\ effective_threshold # None
                                /\ @ = None
                                /\ lv > effective_threshold
                                /\ metrics.analysis_start
                             THEN n ELSE @]
        /\ obs_max' = IF in_window THEN Max(obs_max, lv) ELSE obs_max
        /\ seen' = seen \cup {f}

AnalyseFrame(f) ==
    LET lv == FrameMean(f)
        n  == metrics.frames_analysis + 1
    IN  /\ heatmap_max' = IF heatmap_max = NoFrame THEN f ELSE PixMax(heatmap_max, f)
        /\ cam_max_light' = IF lv > cam_max_light THEN lv ELSE cam_max_light
        /\ metrics' = [metrics EXCEPT
                         !.frames_total = @ + 1,
                         !.frames_analysis = n,
                         !.first_exceed_time =
                             IF /\ effective_threshold # None
                                /\ @ = None
                                /\ lv > effective_threshold
                                /\ metrics.analysis_start
                             THEN n ELSE @]
        /\ obs_max' = IF in_window THEN Max(obs_max, lv) ELSE obs_max
        /\ seen' = seen \cup {f}

\* camera.start(): _running, max_light reset, open_camera; a failed open leaves
\* the try block through the finally and ends the thread
camera_loop_start ==
    /\ cam_pc = "start"
    /\ cam_running' = TRUE
    /\ cam_max_light' = 0
    /\ in_window' = TRUE
    /\ \E ok \in OpenOutcomes :
         /\ camera_open' = ok
         /\ cam_pc' = IF ok THEN "loop" ELSE "dead"
    /\ UNCHANGED << app, gui_tk, expState, last_frame, thresholds, heatmap_max,
                    last_heatmap_path, metrics, mist_pin, guiModes, rt_pc, rt_locals,
                    z_pc, mist_pc, rot_pc, rot_seg, run_record, obs_max, seen, motor_failed >>

\* reads the camera_loop threads have made on the current metrics: analysed
\* frames and the read errors that are not the baseline's
LoopReads ==
    metrics.frames_analysis + metrics.read_errors - (rt_i - metrics.frames_baseline)

CamAt(who, pc) == IF who = "cur" THEN cam_pc = pc ELSE z_pc = pc

CamGoto(who, to) ==
    IF who = "cur"
    THEN cam_pc' = to /\ UNCHANGED z_pc
    ELSE z_pc' = (IF to = "done" THEN "none" ELSE to) /\ UNCHANGED cam_pc

\* while getattr(self.camera, "_running", False): ... finally close_camera()
camera_loop_check(who) ==
    /\ CamAt(who, "loop")
    /\ IF cam_running
       THEN /\ LoopReads < MaxReads
            /\ CamGoto(who, "read")
            /\ UNCHANGED camera_open
       ELSE /\ CamGoto(who, "done")
            /\ camera_open' = FALSE
    /\ UNCHANGED << app, gui_tk, expState, cam_running, cam_max_light, last_frame,
                    thresholds, heatmap_max, last_heatmap_path, metrics, mist_pin,
                    guiModes, rt_pc, rt_locals, mist_pc, rot_pc, rot_seg, run_record,
                    ghosts >>

camera_loop_frame(who) ==
    /\ CamAt(who, "read")
    /\ LoopReads < MaxReads
    /\ \E f \in Frames : last_frame' = f /\ AnalyseFrame(f)
    /\ camera_open' = TRUE
    /\ CamGoto(who, "loop")
    /\ UNCHANGED << app, gui_tk, expState, cam_running, thresholds, last_heatmap_path,
                    mist_pin, guiModes, rt_pc, rt_locals, mist_pc, rot_pc, rot_seg,
                    run_record, in_window, motor_failed >>

camera_loop_error(who) ==
    /\ CamAt(who, "read")
    /\ LoopReads < MaxReads
    /\ \E o \in ReadFailOutcomes : camera_open' = o
    /\ metrics' = [metrics EXCEPT !.read_errors = @ + 1]
    /\ CamGoto(who, "loop")
    /\ UNCHANGED << app, gui_tk, expState, cam_running, cam_max_light, last_frame,
                    thresholds, heatmap_max, last_heatmap_path, mist_pin, guiModes,
                    rt_pc, rt_locals, mist_pc, rot_pc, rot_seg, run_record, ghosts >>

\* ------------------------------------------- gui.py: mist and rotation workers
\* _mist_worker: _init_gpio() sets the relay pin up as an output, then
\* GPIO.output(MIST_PIN, HIGH) before the try block
mist_worker_on ==
    /\ mist_pc = "start"
    /\ mist_pin' = "HIGH"
    /\ mist_pc' = "sleep"
    /\ UNCHANGED << app, gui_tk, expState, camera_open, cam_running, cam_max_light,
                    last_frame, thresholds, heatmap_max, last_heatmap_path, metrics,
                    guiModes, rt_pc, rt_locals, cam_pc, z_pc, rot_pc,
                    rot_seg, run_record, ghosts >>

\* variant of mist_worker_off: the worker returns without the finally clause
mist_worker_off_no_finally ==
    /\ mist_pc = "sleep"
    /\ mist_pc' = "done"
    /\ UNCHANGED << app, gui_tk, expState, camera_open, cam_running, cam_max_light,
                    last_frame, thresholds, heatmap_max, last_heatmap_path, metrics,
                    mist_pin, guiModes, rt_pc, rt_locals, cam_pc, z_pc, rot_pc,
                    rot_seg, run_record, ghosts >>

\* finally: GPIO.output(MIST_PIN, LOW), which raises on a channel that a
\* GPIO.cleanup() has meanwhile returned to input
mist_worker_off ==
    /\ mist_pc = "sleep"
    /\ IF mist_pin = "UNSET"
       THEN mist_pin' = mist_pin /\ mist_pc' = "dead"
       ELSE mist_pin' = "LOW" /\ mist_pc' = "done"
    /\ UNCHANGED << app, gui_tk, expState, camera_open, cam_running, cam_max_light,
                    last_frame, thresholds, heatmap_max, last_heatmap_path, metrics,
                    guiModes, rt_pc, rt_locals, cam_pc, z_pc, rot_pc,
                    rot_seg, run_record, ghosts >>

\* segments = int(max(1, round(4.0 * revolutions))), revolutions = 1.0
Segments == Max(1, SEGMENTS_PER_REV * 1)

\* variant of rotation_worker_init: a worker without a motor still books the
\* time of the segments
rotation_worker_init_books_time ==
    /\ rot_pc = "start"
    /\ \E ok \in BOOLEAN :
         /\ rot_pc' = IF ok THEN "rotating" ELSE "done"
         /\ motor_failed' = ~ok
         /\ metrics' = IF ok THEN metrics
                       ELSE [metrics EXCEPT !.rotation_time_accum = @ + Segments]
    /\ UNCHANGED << app, gui_tk, expState, camera_open, cam_running, cam_max_light,
                    last_frame, thresholds, heatmap_max, last_heatmap_path,
                    mist_pin, guiModes, rt_pc, rt_locals, cam_pc, z_pc,
                    mist_pc, rot_seg, run_record, obs_max, in_window, seen >>

\* motor = StepperMotor(); an exception makes the worker return
rotation_worker_init ==
    /\ rot_pc = "start"
    /\ \E ok \in BOOLEAN :
         /\ rot_pc' = IF ok THEN "rotating" ELSE "done"
         /\ motor_failed' = ~ok
    /\ UNCHANGED << app, gui_tk, expState, camera_open, cam_running, cam_max_light,
                    last_frame, thresholds, heatmap_max, last_heatmap_path, metrics,
                    mist_pin, guiModes, rt_pc, rt_locals, cam_pc, z_pc,
                    mist_pc, rot_seg, run_record, obs_max, in_window, seen >>

\* the rotate_90() calls, rotation_time_accum += elapsed once all returned, and
\* finally: motor.cleanup() = GPIO.cleanup(), which returns every channel, the
\* relay pin included, to input
rotation_worker_rotate ==
    /\ rot_pc = "rotating"
    /\ \E ok \in BOOLEAN :
         /\ metrics' = IF ok
                       THEN [metrics EXCEPT !.rotation_time_accum = @ + Segments]
                       ELSE metrics
         /\ rot_pc' = IF ok THEN "done" ELSE "dead"
    /\ mist_pin' = "UNSET"
    /\ UNCHANGED << app, gui_tk, expState, camera_open, cam_running, cam_max_light,
                    last_frame, thresholds, heatmap_max, last_heatmap_path, guiModes,
                    rt_pc, rt_locals, cam_pc, z_pc, mist_pc, rot_seg,
                    run_record, ghosts >>

\* ------------------------------------------------------ guiExp.py: a test run
\* run_test: thresholds on frame means, q99.5 + guard, clipped to 0..255
\* variant of ExpThreshold: no fail-safe, an empty baseline counts as dark
ExpThresholdNoFailSafe(s) ==
    IF s = <<>>
    THEN [ dyn |-> 0, p95 |-> None, guard |-> None, eff |-> GUARD_MEAN_ABS ]
    ELSE LET dyn   == Percentile(s, BASELINE_Q)
             guard == Max(GUARD_MEAN_ABS, GUARD_MEAN_SIGMA * SampleStd(s))
         IN  [ dyn |-> dyn, p95 |-> dyn, guard |-> guard,
               eff |-> Max(0, Min(dyn + guard, MAX_BRIGHTNESS)) ]

\* variant of ExpThreshold: the guard band has no absolute floor
ExpThresholdNoFloor(s) ==
    IF s = <<>>
    THEN [ dyn |-> MAX_BRIGHTNESS, p95 |-> None, guard |-> None,
           eff |-> MAX_BRIGHTNESS ]
    ELSE LET dyn   == Percentile(s, BASELINE_Q)
             guard == GUARD_MEAN_SIGMA * SampleStd(s)
         IN  [ dyn |-> dyn, p95 |-> dyn, guard |-> guard,
               eff |-> Max(0, Min(dyn + guard, MAX_BRIGHTNESS)) ]

\* variant of ExpThreshold: the sum is not clamped to 0..255
ExpThresholdUnclipped(s) ==
    IF s = <<>>
    THEN [ dyn |-> MAX_BRIGHTNESS, p95 |-> None, guard |-> None,
           eff |-> MAX_BRIGHTNESS ]
    ELSE LET dyn   == Percentile(s, BASELINE_Q)
             guard == Max(GUARD_MEAN_ABS, GUARD_MEAN_SIGMA * SampleStd(s))
         IN  [ dyn |-> dyn, p95 |-> dyn, guard |-> guard, eff |-> dyn + guard ]

ExpThreshold(s) ==
    IF s = <<>>
    THEN [ dyn |-> MAX_BRIGHTNESS, p95 |-> None, guard |-> None,
           eff |-> MAX_BRIGHTNESS ]
    ELSE LET dyn   == Percentile(s, BASELINE_Q)
             guard == Max(GUARD_MEAN_ABS, GUARD_MEAN_SIGMA * SampleStd(s))
         IN  [ dyn |-> dyn, p95 |-> dyn, guard |-> guard,
               eff |-> Max(0, Min(dyn + guard, MAX_BRIGHTNESS)) ]

\* start_test_thread with _start_frame_grabber: a grabber already running is
\* kept, otherwise the camera is opened (failure swallowed) and one is started
exp_start_test_thread ==
    /\ app = "guiExp" /\ screen = "home" /\ ~closing
    /\ screen' = "progress"
    /\ metrics' = NewMetrics
    /\ heatmap_max' = NoFrame
    /\ last_heatmap_path' = FALSE
    /\ IF grabber_running
       THEN UNCHANGED << camera_open, grabber_running, grabber_alive >>
       ELSE /\ \E ok \in OpenOutcomes : camera_open' = ok
            /\ grabber_running' = TRUE
            /\ grabber_alive' = TRUE
    /\ rt_pc' = "baseline" /\ samples' = <<>> /\ rt_i' = 0 /\ verdict' = "none"
    /\ rot_seg' = 0
    /\ saved' = NoRow /\ save_raised' = FALSE /\ run_outcome' = "none"
    /\ obs_max' = 0 /\ in_window' = FALSE /\ seen' = {} /\ motor_failed' = FALSE
    /\ UNCHANGED << app, result_bind, after_cb, closing, analysis_running, an_pc,
                    win_elapsed, cam_running, cam_max_light, last_frame, thresholds,
                    mist_pin, guiModes, cam_pc, z_pc, mist_pc, rot_pc >>

\* the grabber's _loop: read_frame into camera.last_frame
grabber_frame ==
    /\ grabber_alive /\ grabber_running /\ ~closing
    /\ \E f \in Frames : last_frame' = f
    /\ camera_open' = TRUE
    /\ UNCHANGED << app, gui_tk, expState, cam_running, cam_max_light, thresholds,
                    heatmap_max, last_heatmap_path, metrics, mist_pin, guiModes,
                    rt_pc, rt_locals, guiWorkers, run_record, ghosts >>

\* the grabber's _loop: read_frame raised; sleep and retry
grabber_error ==
    /\ grabber_alive /\ grabber_running /\ ~closing
    /\ \E o \in ReadFailOutcomes : camera_open' = o
    /\ UNCHANGED << app, gui_tk, expState, cam_running, cam_max_light, last_frame,
                    thresholds, heatmap_max, last_heatmap_path, metrics, mist_pin,
                    guiModes, rt_pc, rt_locals, guiWorkers, run_record, ghosts >>

\* one baseline attempt: a missing last_frame is skipped without any count
exp_run_test_baseline ==
    /\ app = "guiExp" /\ rt_pc = "baseline" /\ rt_i < NumSamples /\ ~closing
    /\ IF last_frame = NoFrame
       THEN UNCHANGED << samples, metrics >>
       ELSE /\ samples' = Append(samples, FrameMean(last_frame))
            /\ metrics' = [metrics EXCEPT !.frames_total = @ + 1,
                                          !.frames_baseline = @ + 1]
    /\ rt_i' = rt_i + 1
    /\ UNCHANGED << app, gui_tk, expState, camera_open, cam_running, cam_max_light,
                    last_frame, thresholds, heatmap_max, last_heatmap_path, mist_pin,
                    guiModes, rt_pc, verdict, guiWorkers, run_record, ghosts >>

\* the metrics keys are baseline_q995, guard_band_mean and
\* effective_threshold_mean in guiExp.py
exp_run_test_threshold ==
    /\ app = "guiExp" /\ rt_pc = "baseline" /\ rt_i = NumSamples /\ ~closing
    /\ LET t == ExpThreshold(samples)
       IN  /\ dynamic_threshold' = t.dyn
           /\ effective_threshold' = t.eff
           /\ metrics' = [metrics EXCEPT !.baseline_p95 = t.p95,
                                         !.guard_band = t.guard,
                                         !.effective_threshold = t.eff]
    /\ rt_pc' = "mist"
    /\ UNCHANGED << app, gui_tk, expState, camera_open, cam_running, cam_max_light,
                    last_frame, heatmap_max, last_heatmap_path, mist_pin, guiModes,
                    rt_locals, guiWorkers, run_record, ghosts >>

\* _mist_on: GPIO.output raises on a channel that is not an output; swallowed
MistOn(pin) == IF pin = "UNSET" THEN "UNSET" ELSE "HIGH"
\* _mist_off, likewise
MistOff(pin) == IF pin = "UNSET" THEN "UNSET" ELSE "LOW"

\* motor = StepperMotor() (None when it raises), then _mist_on of either
\* branch of the misting phase
exp_run_test_mist_on ==
    /\ app = "guiExp" /\ rt_pc = "mist" /\ ~closing
    /\ \E ok \in BOOLEAN :
         /\ rt_pc' = IF ok THEN "mist_rotate" ELSE "mist_sleep"
         /\ motor_failed' = ~ok
    /\ mist_pin' = MistOn(mist_pin)
    /\ UNCHANGED << app, gui_tk, expState, camera_open, cam_running, cam_max_light,
                    last_frame, thresholds, heatmap_max, last_heatmap_path, metrics,
                    guiModes, rt_locals, guiWorkers, run_record, obs_max, in_window,
                    seen >>

\* _mist_and_rotate: the rotate_90 attempts (exceptions swallowed), finally
\* _mist_off; then motor.cleanup() = GPIO.cleanup()
exp_run_test_rotate ==
    /\ app = "guiExp" /\ rt_pc = "mist_rotate" /\ ~closing
    /\ rot_seg' = Segments
    /\ mist_pin' = "UNSET"
    /\ rt_pc' = "analysis"
    /\ UNCHANGED << app, gui_tk, expState, camera_open, cam_running, cam_max_light,
                    last_frame, thresholds, heatmap_max, last_heatmap_path, metrics,
                    guiModes, rt_locals, cam_pc, z_pc, mist_pc, rot_pc, run_record,
                    ghosts >>

\* the branch without a motor: time.sleep(3.0), _mist_off
exp_run_test_mist_off ==
    /\ app = "guiExp" /\ rt_pc = "mist_sleep" /\ ~closing
    /\ mist_pin' = MistOff(mist_pin)
    /\ rt_pc' = "analysis"
    /\ UNCHANGED << app, gui_tk, expState, camera_open, cam_running, cam_max_light,
                    last_frame, thresholds, heatmap_max, last_heatmap_path, metrics,
                    guiModes, rt_locals, guiWorkers, run_record, ghosts >>

\* camera.max_light = 0.0, then _start_analysis_loop
exp_run_test_start_analysis ==
    /\ app = "guiExp" /\ rt_pc = "analysis" /\ ~closing
    /\ cam_max_light' = 0
    /\ in_window' = TRUE
    /\ IF analysis_running
       THEN UNCHANGED << analysis_running, an_pc, win_elapsed, metrics >>
       ELSE /\ analysis_running' = TRUE
            /\ metrics' = [metrics EXCEPT !.analysis_start = TRUE]
            /\ an_pc' = "loop"
            /\ win_elapsed' = FALSE
    /\ rt_pc' = "stop_analysis"
    /\ UNCHANGED << app, gui_tk, closing, grabber_running, grabber_alive, camera_open,
                    cam_running, last_frame, thresholds, heatmap_max,
                    last_heatmap_path, mist_pin, guiModes, rt_locals, guiWorkers,
                    run_record, obs_max, seen, motor_failed >>

\* _stop_analysis_loop: the flag is cleared right after the loop was started
exp_run_test_stop_analysis ==
    /\ app = "guiExp" /\ rt_pc = "stop_analysis" /\ ~closing
    /\ analysis_running' = FALSE
    /\ rt_pc' = "join_analysis"
    /\ UNCHANGED << app, gui_tk, closing, grabber_running, grabber_alive, an_pc,
                    win_elapsed, camera_open, cam_running, cam_max_light, last_frame,
                    thresholds, heatmap_max, last_heatmap_path, metrics, mist_pin,
                    guiModes, rt_locals, guiWorkers, run_record, ghosts >>

\* t.join(timeout=1.0): an iteration of the loop takes some 0.05 s and never
\* blocks, so the thread has ended when join returns; then the verdict
exp_run_test_collect ==
    /\ app = "guiExp" /\ rt_pc = "join_analysis" /\ ~closing
    /\ an_pc # "loop"
    /\ metrics' = [metrics EXCEPT !.max_brightness = cam_max_light]
    /\ verdict' = IF TestFailed(cam_max_light, effective_threshold)
                  THEN "FAILED" ELSE "PASSED"
    /\ in_window' = FALSE
    /\ rt_pc' = "save"
    /\ UNCHANGED << app, gui_tk, expState, camera_open, cam_running, cam_max_light,
                    last_frame, thresholds, heatmap_max, last_heatmap_path, mist_pin,
                    guiModes, samples, rt_i, guiWorkers, run_record, obs_max, seen, motor_failed >>

exp_run_test_save ==
    /\ app = "guiExp" /\ rt_pc = "save" /\ ~closing
    /\ \E hm \in (IF heatmap_max = NoFrame THEN {TRUE} ELSE BOOLEAN), ok \in BOOLEAN :
         LET h == FinalizeHeatmap(hm, effective_threshold)
             m == [metrics EXCEPT !.heatmap_png_path = h.path,
                                  !.pct_frame_above_threshold = h.pct]
         IN  /\ metrics' = m
             /\ last_heatmap_path' = h.path
             /\ saved' = IF ok
                         THEN SavedRow(verdict, m, dynamic_threshold, GuardVal,
                                       effective_threshold)
                         ELSE saved
             /\ save_raised' = ~ok
             /\ after_cb' = IF ok THEN verdict ELSE after_cb
             /\ run_outcome' = IF ok THEN verdict ELSE run_outcome
             /\ rt_pc' = IF ok THEN "done" ELSE "dead"
    /\ UNCHANGED << app, screen, result_bind, expState, camera_open, cam_running,
                    cam_max_light, last_frame, thresholds, heatmap_max, mist_pin,
                    guiModes, rt_locals, guiWorkers, ghosts >>

\* ------------------------------------------------- guiExp.py: analysis loop
\* variant of analysis_loop_frame: the loop reads the camera itself
analysis_loop_frame_reads_camera ==
    /\ an_pc = "loop" /\ analysis_running /\ ~win_elapsed /\ ~closing
    /\ last_frame # NoFrame
    /\ metrics.frames_analysis < MaxReads
    /\ \E f \in Frames : last_frame' = f /\ AnalyseFrame(f)
    /\ UNCHANGED << app, gui_tk, expState, camera_open, cam_running,
                    thresholds, last_heatmap_path, mist_pin, guiModes, rt_pc,
                    rt_locals, guiWorkers, run_record, in_window, motor_failed >>

\* one iteration on the current last_frame
analysis_loop_frame ==
    /\ an_pc = "loop" /\ analysis_running /\ ~win_elapsed /\ ~closing
    /\ last_frame # NoFrame
    /\ metrics.frames_analysis < MaxReads
    /\ AnalyseFrame(last_frame)
    /\ UNCHANGED << app, gui_tk, expState, camera_open, cam_running, last_frame,
                    thresholds, last_heatmap_path, mist_pin, guiModes, rt_pc,
                    rt_locals, guiWorkers, run_record, in_window, motor_failed >>

\* time.perf_counter() reaches the deadline while the loop is still wanted
analysis_deadline ==
    /\ an_pc = "loop" /\ analysis_running /\ ~win_elapsed /\ ~closing
    /\ win_elapsed' = TRUE
    /\ UNCHANGED << app, gui_tk, closing, grabber_running, grabber_alive,
                    analysis_running, an_pc, camera_open, cam_running, cam_max_light,
                    last_frame, thresholds, heatmap_max, last_heatmap_path, metrics,
                    mist_pin, guiModes, rt_pc, rt_locals, guiWorkers, run_record,
                    ghosts >>

\* the while condition fails; finally: analysis_end, _analysis_running = False
analysis_loop_exit ==
    /\ an_pc = "loop" /\ (~analysis_running \/ win_elapsed) /\ ~closing
    /\ metrics' = [metrics EXCEPT !.analysis_end = TRUE]
    /\ analysis_running' = FALSE
    /\ an_pc' = "done"
    /\ UNCHANGED << app, gui_tk, closing, grabber_running, grabber_alive, win_elapsed,
                    camera_open, cam_running, cam_max_light, last_frame, thresholds,
                    heatmap_max, last_heatmap_path, mist_pin, guiModes, rt_pc,
                    rt_locals, guiWorkers, run_record, ghosts >>

\* ------------------------------------------- guiExp.py: screens and closing
exp_after_callback ==
    /\ app = "guiExp" /\ after_cb # "none" /\ ~closing
    /\ screen' = "result"
    /\ result_bind' = IF last_heatmap_path THEN "heatmap" ELSE "home"
    /\ after_cb' = "none"
    /\ UNCHANGED << app, expState, camera_open, cam_running, cam_max_light, last_frame,
                    thresholds, heatmap_max, last_heatmap_path, metrics, mist_pin,
                    guiModes, rt_pc, rt_locals, guiWorkers, run_record, ghosts >>

\* a tap on the result or the heatmap screen; clear_screen stops no thread
exp_tap ==
    /\ app = "guiExp" /\ screen \in {"result", "heatmap"} /\ ~closing
    /\ screen' = IF screen = "result" THEN result_bind ELSE "home"
    /\ UNCHANGED << app, result_bind, after_cb, expState, camera_open, cam_running,
                    cam_max_light, last_frame, thresholds, heatmap_max,
                    last_heatmap_path, metrics, mist_pin, guiModes, rt_pc, rt_locals,
                    guiWorkers, run_record, ghosts >>

\* on_close: stop the analysis loop and the grabber (each join bounded by 1 s),
\* release the camera, GPIO.cleanup(), destroy the window 50 ms later
exp_on_close ==
    /\ app = "guiExp" /\ ~closing
    /\ closing' = TRUE
    /\ analysis_running' = FALSE
    /\ an_pc' = IF an_pc = "loop" THEN "done" ELSE an_pc
    /\ metrics' = IF an_pc = "loop" THEN [metrics EXCEPT !.analysis_end = TRUE]
                  ELSE metrics
    /\ grabber_running' = FALSE
    /\ \E to \in (IF grabber_alive THEN BOOLEAN ELSE {FALSE}) : grabber_alive' = to
    /\ cam_running' = FALSE
    /\ camera_open' = FALSE
    /\ mist_pin' = "UNSET"
    /\ UNCHANGED << app, gui_tk, win_elapsed, cam_max_light, last_frame, thresholds,
                    heatmap_max, last_heatmap_path, guiModes, rt_pc, rt_locals,
                    guiWorkers, run_record, ghosts >>

ExpNext ==
    \/ exp_start_test_thread \/ grabber_frame \/ grabber_error
    \/ exp_run_test_baseline \/ exp_run_test_threshold
    \/ exp_run_test_mist_on \/ exp_run_test_rotate \/ exp_run_test_mist_off
    \/ exp_run_test_start_analysis \/ exp_run_test_stop_analysis
    \/ exp_run_test_collect \/ exp_run_test_save
    \/ analysis_loop_frame \/ analysis_deadline \/ analysis_loop_exit
    \/ exp_after_callback \/ exp_tap \/ exp_on_close

GuiNext ==
    \/ after_callback \/ tap_seal_warning \/ tap_result \/ tap_heatmap
    \/ start_test_thread \/ run_test_open \/ run_test_baseline_frame
    \/ run_test_baseline_error \/ run_test_threshold \/ run_test_abort
    \/ run_test_start_workers \/ run_test_join_mist \/ run_test_join_rotation
    \/ run_test_stop_camera \/ run_test_collect \/ run_test_save
    \/ camera_loop_start
    \/ \E who \in {"cur", "old"} :
         camera_loop_check(who) \/ camera_loop_frame(who) \/ camera_loop_error(who)
    \/ mist_worker_on \/ mist_worker_off
    \/ rotation_worker_init \/ rotation_worker_rotate

\* Test runs of either module, started from the home screen while no
\* standalone mode of gui.py (live preview, mist jog) is active.
Next == GuiNext \/ ExpNext

Spec == Init /\ [][Next]_vars

\* run_test of either module, one step of the thread
\* the standalone modes of gui.py by themselves
ModesNext ==
    \/ start_live_preview \/ end_live_preview \/ live_preview_open
    \/ live_preview_frame \/ live_preview_orphan_exit
    \/ start_mist_jog \/ stop_mist_jog \/ mist_jog_step \/ mist_jog_orphan_exit
    \/ call_stop_mist_jog_thread \/ call_stop_live_preview_thread
    \/ call_camera_stop \/ on_close

\* A gui.py run in its actuation phase: relay on, motor turning, camera_loop
\* between two reads.
DuringGuiRun ==
    LET m == [NewMetrics EXCEPT !.frames_total = NumSamples,
                                !.frames_baseline = NumSamples,
                                !.baseline_p95 = 0, !.guard_band = 100,
                                !.effective_threshold = 100, !.analysis_start = TRUE]
    IN  /\ app = "gui" /\ screen = "progress" /\ result_bind = "home"
        /\ after_cb = "none" /\ closing = FALSE
        /\ camera_open = TRUE /\ cam_running = TRUE /\ cam_max_light = 0
        /\ last_frame = <<0, 0>>
        /\ dynamic_threshold = 0 /\ effective_threshold = 100
        /\ heatmap_max = NoFrame /\ last_heatmap_path = FALSE
        /\ metrics = m
        /\ mist_pin = "HIGH"
        /\ lp_pc = "none" /\ lp_orphan = FALSE /\ jog_pc = "none" /\ jog_orphan = FALSE
        /\ rt_pc = "join_mist" /\ samples = [i \in 1..NumSamples |-> 0]
        /\ rt_i = NumSamples /\ verdict = "none"
        /\ cam_pc = "loop" /\ z_pc = "none"
        /\ mist_pc = "sleep" /\ rot_pc = "rotating" /\ rot_seg = 0
        /\ grabber_running = FALSE /\ grabber_alive = FALSE
        /\ analysis_running = FALSE /\ an_pc = "none" /\ win_elapsed = FALSE
        /\ saved = NoRow /\ save_raised = FALSE /\ run_outcome = "none"
        /\ obs_max = 0 /\ in_window = TRUE /\ seen = {} /\ motor_failed = FALSE
        /\ stop_req = "none" /\ stop_count = 0 /\ close_cleanups = 0

\* The window as constructed, or a gui.py run under way in which a stop
\* request arrives.
ModesInit == Init \/ DuringGuiRun

ModesSpec == ModesInit /\ [][ModesNext]_vars

\* the mist jog of gui.py together with the start of a test run, its baseline
\* phase and the way back to the home screen of a run the gate aborts
JogRunNext ==
    \/ start_mist_jog \/ stop_mist_jog \/ mist_jog_step \/ mist_jog_orphan_exit
    \/ start_test_thread \/ run_test_open \/ run_test_baseline_frame
    \/ run_test_baseline_error \/ run_test_threshold \/ run_test_abort
    \/ after_callback \/ tap_seal_warning

JogRunSpec == Init /\ [][JogRunNext]_vars

RunTestStep ==
    \/ run_test_open \/ run_test_baseline_frame \/ run_test_baseline_error
    \/ run_test_threshold \/ run_test_abort \/ run_test_start_workers
    \/ run_test_join_mist \/ run_test_join_rotation \/ run_test_stop_camera
    \/ run_test_collect \/ run_test_save
    \/ exp_run_test_baseline \/ exp_run_test_threshold \/ exp_run_test_mist_on
    \/ exp_run_test_rotate \/ exp_run_test_mist_off \/ exp_run_test_start_analysis
    \/ exp_run_test_stop_analysis \/ exp_run_test_collect \/ exp_run_test_save

\* Scheduling: a started thread runs, and a thread that is not blocked takes
\* its next step.  The steps on which the mist worker, the rotation worker and
\* the camera read return are left without fairness: a worker may hang there.
FairSpec ==
    /\ Init /\ [][Next]_vars
    /\ WF_vars(RunTestStep)
    /\ WF_vars(camera_loop_start)
    /\ WF_vars(mist_worker_on)
    /\ WF_vars(rotation_worker_init)
    /\ WF_vars(analysis_loop_exit)

\* ------------------------------------------------- one run, a longer window
\* The home screen after a finished gui.py run whose acquisition thread is
\* still inside read_frame: what the run has left behind.
AfterGuiRun ==
    LET m == [NewMetrics EXCEPT !.frames_total = 3, !.frames_baseline = 2,
                                !.frames_analysis = 1, !.baseline_p95 = 0,
                                !.guard_band = 100, !.effective_threshold = 100,
                                !.max_brightness = 100, !.analysis_start = TRUE,
                                !.analysis_end = TRUE,
                                !.pct_frame_above_threshold = 0]
    IN  /\ app = "gui" /\ screen = "home" /\ result_bind = "home"
        /\ after_cb = "none" /\ closing = FALSE
        /\ camera_open = TRUE /\ cam_running = FALSE /\ cam_max_light = 100
        /\ last_frame = <<0, 200>>
        /\ dynamic_threshold = 0 /\ effective_threshold = 100
        /\ heatmap_max = <<0, 200>> /\ last_heatmap_path = FALSE
        /\ metrics = m
        /\ mist_pin = "LOW"
        /\ lp_pc = "none" /\ lp_orphan = FALSE /\ jog_pc = "none" /\ jog_orphan = FALSE
        /\ rt_pc = "done" /\ samples = <<0, 0>> /\ rt_i = 2 /\ verdict = "PASSED"
        /\ cam_pc = "read" /\ z_pc = "none"
        /\ mist_pc = "done" /\ rot_pc = "done" /\ rot_seg = 0
        /\ grabber_running = FALSE /\ grabber_alive = FALSE
        /\ analysis_running = FALSE /\ an_pc = "none" /\ win_elapsed = FALSE
        /\ saved = SavedRow("PASSED", m, 0, 100, 100)
        /\ save_raised = FALSE /\ run_outcome = "PASSED"
        /\ obs_max = 100 /\ in_window = FALSE /\ seen = { <<0, 200>> }
        /\ motor_failed = TRUE
        /\ stop_req = "none" /\ stop_count = 0 /\ close_cleanups = 0

\* The home screen after a finished guiExp.py run; the grabber keeps running.
AfterExpRun ==
    LET m == [NewMetrics EXCEPT !.frames_total = 3, !.frames_baseline = 2,
                                !.frames_analysis = 1, !.baseline_p95 = 0,
                                !.guard_band = 5000, !.effective_threshold = 5000,
                                !.max_brightness = 5000, !.analysis_start = TRUE,
                                !.analysis_end = TRUE,
                                !.pct_frame_above_threshold = 0]
    IN  /\ app = "guiExp" /\ screen = "home" /\ result_bind = "home"
        /\ after_cb = "none" /\ closing = FALSE
        /\ camera_open = TRUE /\ cam_running = FALSE /\ cam_max_light = 5000
        /\ last_frame = <<0, 10000>>
        /\ dynamic_threshold = 0 /\ effective_threshold = 5000
        /\ heatmap_max = <<0, 10000>> /\ last_heatmap_path = FALSE
        /\ metrics = m
        /\ mist_pin = "LOW"
        /\ lp_pc = "none" /\ lp_orphan = FALSE /\ jog_pc = "none" /\ jog_orphan = FALSE
        /\ rt_pc = "done" /\ samples = <<0, 0>> /\ rt_i = 2 /\ verdict = "PASSED"
        /\ cam_pc = "none" /\ z_pc = "none"
        /\ mist_pc = "none" /\ rot_pc = "none" /\ rot_seg = 0
        /\ grabber_running = TRUE /\ grabber_alive = TRUE
        /\ analysis_running = FALSE /\ an_pc = "done" /\ win_elapsed = FALSE
        /\ saved = SavedRow("PASSED", m, 0, 5000, 5000)
        /\ save_raised = FALSE /\ run_outcome = "PASSED"
        /\ obs_max = 5000 /\ in_window = FALSE /\ seen = { <<0, 10000>> }
        /\ motor_failed = TRUE
        /\ stop_req = "none" /\ stop_count = 0 /\ close_cleanups = 0

\* the first run after construction, or a run after a finished one
WindowInit == Init \/ AfterGuiRun \/ AfterExpRun

\* the frames of the window: those of Spec and their mirror images, so that
\* two frames can each be the brighter one in some pixel
WindowFrameSet == Frames \cup { << f[2], f[1] >> : f \in Frames }

\* One iteration of the acquisition loop with its frame f: of camera_loop of
\* this run, of the camera_loop thread left over from the run before (its
\* pending read returns), or of the analysis loop of guiExp.py on the frame
\* the grabber has just published.
window_frame ==
    /\ metrics.frames_analysis < MaxWindowFrames
    /\ \/ app = "gui" /\ cam_pc = "loop" /\ cam_running /\ UNCHANGED z_pc
       \/ app = "gui" /\ z_pc = "read" /\ z_pc' = "loop"
       \/ app = "guiExp" /\ an_pc = "loop" /\ analysis_running /\ UNCHANGED z_pc
    /\ \E f \in WindowFrameSet : last_frame' = f /\ AnalyseFrame(f)
    /\ camera_open' = TRUE
    /\ UNCHANGED << app, gui_tk, expState, cam_running, thresholds, last_heatmap_path,
                    mist_pin, guiModes, rt_pc, rt_locals, cam_pc, mist_pc, rot_pc,
                    rot_seg, run_record, in_window, motor_failed >>

\* a run from the home screen up to the end of its analysis window
WindowNext ==
    \/ start_test_thread \/ run_test_open \/ run_test_baseline_frame
    \/ run_test_threshold \/ run_test_start_workers \/ camera_loop_start
    \/ exp_start_test_thread \/ grabber_frame \/ exp_run_test_baseline
    \/ exp_run_test_threshold \/ exp_run_test_mist_on \/ exp_run_test_rotate
    \/ exp_run_test_mist_off \/ exp_run_test_start_analysis
    \/ window_frame

WindowSpec == WindowInit /\ [][WindowNext]_vars

\* -------------------------------------------------------------- properties
Verdicts == {"PASSED", "FAILED"}
RunTestEnded == rt_pc \in {"done", "dead"}

C3_EmptyBaselineProceeds ==
    (app = "gui" /\ rt_i = NumSamples /\ samples = <<>> /\ rt_pc \notin {"baseline", "gate"}) =>
        /\ effective_threshold = MAX_BRIGHTNESS
        /\ run_outcome # "ABORTED_SEAL_WARNING"

\* C4: in guiExp.py run_test collects the maximum and computes the verdict
\* only once the analysis window has elapsed or the window was closed.
C4_VerdictAfterAnalysisWindow ==
    (app = "guiExp" /\ verdict \in Verdicts) => (win_elapsed \/ closing)

\* C5: in gui.py a save_run that raised does not end the run_test thread
\* before it has scheduled its result screen.
C5_SaveFailureStillShowsResult ==
    (app = "gui" /\ save_raised /\ RunTestEnded) =>
        (rt_pc = "done" /\ run_outcome # "none")

\* C6: start_test_thread of gui.py never starts a run while a run_test thread
\* or a worker started by one is alive.
C6_OneRunAtATime ==
    [][start_test_thread => ~(RunTestAlive \/ WorkersAlive)]_vars

\* the actuation of the current run has finished
ActuationFinished ==
    IF app = "gui"
    THEN mist_pc \in {"done", "dead"}
    ELSE rt_pc \in {"analysis", "stop_analysis", "join_analysis", "save", "done", "dead"}

C8_NoStaleMaxBrightness ==
    saved.status # "none" => saved.max_brightness = obs_max

\* C9: every started run_test comes to its end, whatever a worker does.
C9_RunTestAlwaysEnds ==
    RunTestAlive ~> (RunTestEnded \/ closing)

\* a worker of the current gui.py run has been started
WorkerStarted == cam_pc # "none" \/ mist_pc # "none" \/ rot_pc # "none"

\* C10: in gui.py a worker is started only after the baseline statistics and
\* effective_threshold are written and the abort gate was evaluated (and let
\* the run pass), and effective_threshold does not change while a worker of
\* the run has been started.
C10_ThresholdBeforeWorkers ==
    /\ [](app = "gui" /\ WorkerStarted =>
            /\ rt_pc \notin {"open", "baseline", "gate"}
            /\ rt_i = NumSamples
            /\ effective_threshold # None
            /\ metrics.effective_threshold = effective_threshold
            /\ dynamic_threshold < SANITY_BOUND)
    /\ [][app = "gui" /\ WorkerStarted /\ WorkerStarted' =>
            effective_threshold' = effective_threshold]_vars

\* all three workers of a run have ended and the run has its outcome
C10_WorkersRanAfterGate ==
    /\ app = "gui"
    /\ cam_pc = "done" /\ mist_pc = "done" /\ rot_pc = "done"
    /\ run_outcome \in Verdicts

\* C11: a run aborted by the ambient-light gate is persisted as one row of
\* status ABORTED_SEAL_WARNING whose frames_analysis is 0, and no PASSED or
\* FAILED row is written for it.
C11_AbortPersistedWithNoAnalysisFrames ==
    run_outcome = "ABORTED_SEAL_WARNING" =>
        /\ saved.status = "ABORTED_SEAL_WARNING"
        /\ saved.frames_analysis = 0

\* C12: once a run's row has been handed to save_run, no step changes that
\* run's metrics record, heatmap accumulator or camera.max_light; a later
\* start of a run (which replaces the row) is the only exception.
C12_RunRecordFrozenAfterSave ==
    [][ (saved.status # "none" /\ saved' = saved) =>
            /\ metrics' = metrics
            /\ heatmap_max' = heatmap_max
            /\ cam_max_light' = cam_max_light ]_vars

\* a camera_loop thread (of this run or left over from the last one) is inside
\* camera.read_frame()
CameraLoopInDeviceCall == cam_pc = "read" \/ z_pc = "read"

\* a step in which run_test of gui.py calls open_camera (772), read_frame in
\* the baseline loop (781) or close_camera on the abort path (862)
RunTestDeviceCall ==
    /\ app = "gui"
    /\ \/ rt_pc = "open" /\ rt_pc' = "baseline"
       \/ rt_pc = "baseline" /\ rt_i' = rt_i + 1
       \/ rt_pc = "gate" /\ rt_pc' = "done"

\* C13: in gui.py no two threads are inside a camera device call at once:
\* run_test makes none while a camera_loop thread is inside read_frame, and no
\* two camera_loop threads are inside read_frame together.
C13_OneCameraUserAtATime ==
    /\ [](~(cam_pc = "read" /\ z_pc = "read"))
    /\ [][ RunTestDeviceCall => ~CameraLoopInDeviceCall ]_vars

\* a step in which a camera_loop thread of gui.py ends
CameraLoopEnds ==
    \/ cam_pc \in {"start", "loop", "read"} /\ cam_pc' \in {"done", "dead"}
    \/ z_pc \in {"loop", "read"} /\ z_pc' = "none"

\* C14: a camera_loop thread ends only when camera.stop() has been called
\* (camera._running is False), and never by an exception leaving the thread.
C14_CameraLoopEndsOnlyOnStop ==
    /\ [](cam_pc # "dead")
    /\ [][ CameraLoopEnds => ~cam_running ]_vars

\* a step of the guiExp.py frame grabber in which read_frame raised: no frame
\* is published; the step is visible when the call had opened the device
\* before its read failed
GrabberReadFails ==
    /\ app = "guiExp" /\ grabber_alive /\ grabber_running
    /\ ~camera_open /\ camera_open'
    /\ last_frame' = last_frame
    /\ rt_pc' = rt_pc /\ closing' = closing

\* C15: every failed acquisition of the guiExp.py frame grabber adds one to
\* the run's read_errors.
C15_GrabberCountsReadErrors ==
    [][ GrabberReadFails => metrics'.read_errors = metrics.read_errors + 1 ]_vars

\* C16: a run whose baseline sample list is empty is never saved as FAILED,
\* in gui.py or in guiExp.py, whatever frames its analysis window sees.
C16_EmptyBaselineNeverFailed ==
    saved.status = "FAILED" => samples # <<>>

\* guiExp.py: no baseline sample, a saturated frame analysed, saved PASSED
C16_EmptyBaselineSaturatedFramePassed ==
    /\ app = "guiExp" /\ samples = <<>>
    /\ saved.status = "PASSED"
    /\ saved.frames_analysis > 0
    /\ saved.max_brightness = MAX_BRIGHTNESS

\* GUARD_ABS of gui.py, GUARD_MEAN_ABS of guiExp.py
AbsoluteFloor == IF app = "gui" THEN GUARD_ABS ELSE GUARD_MEAN_ABS

SigmaMultiplier == IF app = "gui" THEN GUARD_SIGMA ELSE GUARD_MEAN_SIGMA

ClipThreshold(x) ==
    IF app = "gui" THEN x ELSE Max(0, Min(x, MAX_BRIGHTNESS))

NewRunStarts == screen = "home" /\ screen' = "progress"

\* a step in which an acquisition loop has analysed a frame
FrameAnalysed == metrics'.frames_analysis = metrics.frames_analysis + 1

\* C19: within one run first_exceed_time is written at most once: at the
\* first frame analysed since analysis_start whose mean exceeds
\* effective_threshold, and no later frame overwrites it.
C19_FirstExceedTimeLatch ==
    [][ LET was == metrics.first_exceed_time
            now == metrics'.first_exceed_time
            lv  == FrameMean(last_frame')
        IN  /\ (was # None /\ ~NewRunStarts) => now = was
            /\ (was = None /\ now # None) =>
                   /\ FrameAnalysed
                   /\ lv > effective_threshold
                   /\ now = metrics'.frames_analysis
            /\ ( /\ FrameAnalysed /\ metrics.analysis_start
                 /\ was = None /\ lv > effective_threshold ) => now # None ]_vars

\* the second frame of a window was the first over the threshold, the third is
\* over it as well and has left the latch alone
C19_LatchedAtSecondFrameKeptAtThird ==
    /\ metrics.frames_analysis = 3
    /\ metrics.first_exceed_time = 2
    /\ FrameMean(last_frame) > effective_threshold
    /\ last_frame \in seen

\* the greatest element of a finite set of numbers
SetMax(T) == CHOOSE m \in T : \A x \in T : x <= m

\* the pixel-wise maximum of a non-empty set of frames
PixelwiseMaximum(S) ==
    [i \in 1..Len(CHOOSE f \in S : TRUE) |-> SetMax({ f[i] : f \in S })]

C21_MotorInitFailureNotFatal ==
    motor_failed =>
        /\ metrics.rotation_time_accum = 0
        /\ rot_seg = 0
        /\ app = "gui" => rot_pc = "done"
        /\ rt_pc = "dead" => save_raised
        /\ saved.status # "none" =>
               /\ saved.status \in {"PASSED", "FAILED"}
               /\ saved.rotation_time_accum = 0

\* a run without a motor that analysed a frame and was saved with its verdict
C21_RunWithoutMotorSaved ==
    /\ motor_failed
    /\ saved.status \in {"PASSED", "FAILED"}
    /\ saved.frames_analysis > 0
    /\ saved.rotation_time_accum = 0

\* the mist worker and the rotation worker of gui.py have both ended
ActuationWorkersEnded ==
    mist_pc \in {"done", "dead"} /\ rot_pc \in {"done", "dead"}

\* one of them has been started by this run and has not ended
ActuationRunning ==
    mist_pc \in {"start", "sleep"} \/ rot_pc \in {"start", "rotating"}

program_state ==
    << app, screen, result_bind, after_cb, closing, camera_open, cam_running,
       cam_max_light, last_frame, dynamic_threshold, effective_threshold,
       heatmap_max, last_heatmap_path, metrics, mist_pin, lp_pc, lp_orphan,
       jog_pc, jog_orphan, rt_pc, samples, rt_i, verdict, cam_pc, z_pc,
       mist_pc, rot_pc, rot_seg, grabber_running, grabber_alive,
       analysis_running, an_pc, win_elapsed, saved, save_raised, run_outcome,
       obs_max, in_window, seen, motor_failed, close_cleanups >>

\* the stop request made last is made again, no other handler in between
RepeatedStopRequest ==
    stop_req # "none" /\ stop_req' = stop_req /\ stop_count' = stop_count + 1

\* C23: in gui.py a repeated _stop_mist_jog_thread, _stop_live_preview_thread,
\* camera.stop or on_close changes nothing (threads, events, camera, relay pin
\* stay as the first call left them), and on_close reaches _gpio_cleanup at
\* most once.
C23_StopRequestsIdempotent ==
    /\ [][RepeatedStopRequest => UNCHANGED program_state]_vars
    /\ [](close_cleanups <= 1)

\* the window is closed twice in the actuation phase of a run: the first call
\* stopped the camera and released the GPIO
C23_ClosedTwiceDuringRun ==
    /\ stop_req = "on_close" /\ stop_count >= 2
    /\ rt_pc = "join_mist" /\ closing /\ close_cleanups = 1
    /\ ~cam_running /\ ~camera_open /\ mist_pin = "UNSET"

\* the event counters of a metrics record
Counters(m) == << m.frames_total, m.frames_baseline, m.frames_analysis, m.read_errors >>

CountersGrowByOne ==
    \A k \in 1..4 : /\ Counters(metrics')[k] >= Counters(metrics)[k]
                    /\ Counters(metrics')[k] <= Counters(metrics)[k] + 1

\* C24: the counters of the run metrics lose no increment.  In every state
\* frames_total = frames_baseline + frames_analysis, frames_baseline is the
\* number of baseline samples taken, a frame has been analysed exactly when
\* frames_analysis is positive, and in gui.py read_errors covers every failed
\* baseline attempt; a counter changes only by +1 except when a new run resets
\* the record; the saved row carries the counters of the end of the run.
C24_NoIncrementLost ==
    /\ [](metrics.frames_total = metrics.frames_baseline + metrics.frames_analysis)
    /\ [](metrics.frames_baseline = Len(samples))
    /\ []((metrics.frames_analysis > 0) <=> (seen # {}))
    /\ [](app = "gui" => metrics.read_errors >= rt_i - Len(samples))
    /\ [][NewRunStarts \/ CountersGrowByOne]_vars
    /\ [](saved.status # "none" =>
            /\ saved.frames_total = saved.frames_baseline + saved.frames_analysis
            /\ saved.frames_baseline = Len(samples)
            /\ saved.frames_analysis <= metrics.frames_analysis
            /\ saved.read_errors <= metrics.read_errors)

\* a gui.py run saved with a verdict, baseline frames and analysed frames
\* counted by two threads into the same record
C24_SavedRunWithAllCounters ==
    /\ app = "gui" /\ saved.status \in {"PASSED", "FAILED"}
    /\ saved.frames_baseline > 0 /\ saved.frames_analysis > 0
    /\ saved.frames_total = saved.frames_baseline + saved.frames_analysis

\* the screens a finished run is shown on
OutcomeScreens == {"result", "heatmap", "seal_warning"}

\* the run has its outcome: the seal-warning abort or a computed verdict
OutcomeReached == run_outcome # "none" \/ verdict \in Verdicts

\* the progress screen is left only by the callback run_test schedules
ResultStillComing == rt_pc # "dead" \/ after_cb # "none"

\* C25: after a run outcome the home screen is reached by a tap on the
\* result, heatmap or seal-warning screen and in no other way, a run starts
\* from the home screen only, and a run that has its outcome is never left on
\* the progress screen with no result screen to come.
C25_OutcomeAcknowledgedToIdle ==
    /\ [][ (screen # "home" /\ screen' = "home") => screen \in OutcomeScreens ]_vars
    /\ [][ (rt_pc' = "open" /\ rt_pc # "open") => (screen = "home" /\ screen' = "progress") ]_vars
    /\ []((OutcomeReached /\ screen = "progress") => ResultStillComing)

\* run_test of guiExp.py goes through _mist_and_rotate and motor.cleanup()
MistAndRotateStep == app = "guiExp" /\ rt_pc = "mist_rotate" /\ rt_pc' = "analysis"

\* C26: in guiExp.py the rotate_90 calls of _mist_and_rotate, Segments of
\* them, are made with the relay pin driven HIGH, and the pin is not HIGH
\* once the call has returned.
C26_SegmentsWhileRelayOn ==
    [][ MistAndRotateStep =>
            (mist_pin = "HIGH" /\ rot_seg' = Segments /\ mist_pin' # "HIGH") ]_vars

\* a step of guiExp.py that takes a baseline sample or analyses a frame
ExpConsumesFrame == app = "guiExp" /\ (samples' # samples \/ FrameAnalysed)

\* C27: in guiExp.py only the frame grabber reads the sensor.  Until the
\* window is closed the grabber thread is alive exactly when _grabber_running
\* is set, and the flag is set (a thread created) only when no grabber thread
\* is alive; a step that takes a baseline sample or analyses a frame leaves the
\* device and last_frame alone, last_frame changes only with the grabber
\* running; and the grabber is running whenever the analysis loop is.
C27_GrabberIsTheOnlyReader ==
    /\ []((app = "guiExp" /\ ~closing) => (grabber_alive <=> grabber_running))
    /\ [][ (grabber_running' /\ ~grabber_running) => ~grabber_alive ]_vars
    /\ [][ ExpConsumesFrame => UNCHANGED << last_frame, camera_open >> ]_vars
    /\ [][ (app = "guiExp" /\ last_frame' # last_frame) =>
               (grabber_alive /\ grabber_running) ]_vars
    /\ []((app = "guiExp" /\ an_pc = "loop") => (grabber_alive /\ grabber_running))

\* the analysis loop of a later run of the session has analysed a frame, the
\* grabber of the first run still being the one that runs
C27_LaterRunSameGrabber ==
    /\ app = "guiExp" /\ ~closing
    /\ an_pc = "loop" /\ metrics.frames_analysis > 0
    /\ grabber_alive /\ grabber_running
    /\ motor_failed /\ mist_pin = "UNSET"

\* a handler of gui.py has changed the screen, which it does through
\* clear_screen
ScreenChanges == app = "gui" /\ screen' # screen

\* C28: in gui.py a screen change leaves no live-preview worker and no
\* mist-jog worker running that the application no longer holds, and on the
\* home screen no such worker runs at all.
C28_NoWorkerSurvivesScreenChange ==
    /\ [][ ScreenChanges => (~lp_orphan' /\ ~jog_orphan') ]_vars
    /\ [][ (ScreenChanges /\ screen' = "home") =>
               (lp_pc' = "none" /\ jog_pc' = "none") ]_vars

\* guiExp.py shows the home screen after a result or heatmap screen
ExpReturnsHome == app = "guiExp" /\ screen \in OutcomeScreens /\ screen' = "home"

\* C29: in guiExp.py the step that brings the home screen back after a run
\* leaves no grabber thread running and the camera released, and so does
\* closing the window.
C29_GrabberStoppedOnHome ==
    /\ [][ ExpReturnsHome =>
               (~grabber_running' /\ ~grabber_alive' /\ ~camera_open') ]_vars
    /\ []((app = "guiExp" /\ closing) => (~grabber_running /\ ~camera_open))

\* stop_mist_jog of gui.py has returned, the window not being closed
StopMistJogReturns ==
    app = "gui" /\ ~closing /\ screen = "mist_jog" /\ screen' = "home"

\* a mist operation is started: the mist jog, or the mist worker of a run
MistOperationStarts == jog_pc' = "start" \/ mist_pc' = "start"

\* C30: when stop_mist_jog of gui.py returns, no mist-jog worker runs and the
\* relay pin is LOW, and from then on the pin leaves LOW only in a step that
\* starts a mist operation or after one was started.
C30_MistJogEndedRelayLow ==
    /\ [][ StopMistJogReturns =>
               (jog_pc' = "none" /\ ~jog_orphan' /\ mist_pin' = "LOW") ]_vars
    /\ [][ (screen = "home" /\ jog_pc = "none" /\ ~jog_orphan /\ mist_pin = "LOW"
            /\ mist_pc \notin {"start", "sleep"} /\ ~closing' /\ rot_pc' = rot_pc) =>
               (mist_pin' = "LOW" \/ MistOperationStarts) ]_vars

\* a live-preview worker thread of gui.py is alive, held or forgotten
LivePreviewAlive == lp_pc \in {"start", "loop"} \/ lp_orphan

\* a mist-jog worker thread of gui.py is alive, held or forgotten
MistJogAlive == jog_pc \in {"start", "off", "on"} \/ jog_orphan

\* C31: in gui.py a live-preview worker and a mist-jog worker are never alive
\* at the same time.
C31_StandaloneModesDoNotOverlap ==
    ~(app = "gui" /\ ~closing /\ LivePreviewAlive /\ MistJogAlive)

\* a step of the live-preview worker of gui.py, held or forgotten
LivePreviewWorkerStep ==
    live_preview_open \/ live_preview_frame \/ live_preview_orphan_exit

\* what a test run measures, drives and persists
RunEffects ==
    << metrics, cam_max_light, dynamic_threshold, effective_threshold, heatmap_max,
       last_heatmap_path, mist_pin, mist_pc, rot_pc, rot_seg, saved, save_raised,
       run_outcome, verdict >>

\* C32: a step of the live-preview worker of gui.py changes camera.last_frame
\* and the open state of the camera at most: the run metrics, the thresholds,
\* the heatmap accumulator, the relay pin, the motor and the saved row stay as
\* they are.
C32_LivePreviewTouchesCameraOnly ==
    [][ LivePreviewWorkerStep => UNCHANGED RunEffects ]_vars

\* the live preview has delivered a frame and nothing of a run has been touched
C32_PreviewFrameDelivered ==
    /\ app = "gui" /\ lp_pc = "loop" /\ last_frame # NoFrame /\ camera_open
    /\ metrics = NewMetrics /\ heatmap_max = NoFrame /\ saved = NoRow

\* C33: a row saved with status PASSED or FAILED has status FAILED exactly
\* when its first_exceed_time is set.
C33_VerdictAgreesWithLatch ==
    saved.status \in Verdicts =>
        ((saved.status = "FAILED") <=> (saved.first_exceed_time # None))

\* C34: a row saved with status PASSED counts at least one analysed frame.
C34_PassedNeedsAnalysedFrame ==
    saved.status = "PASSED" => saved.frames_analysis >= 1

\* a test run of gui.py is between its start and its verdict
RunBeforeVerdict ==
    app = "gui" /\ rt_pc \notin {"none", "done", "dead", "save"} /\ verdict = "none"

\* C35: in gui.py a mist-jog worker the application holds and one it has
\* forgotten are never alive together, and no mist-jog worker is alive while
\* a test run is between its start and its verdict.
C35_MistJogAloneAndNotInRun ==
    /\ ~(app = "gui" /\ jog_pc \in {"start", "off", "on"} /\ jog_orphan)
    /\ ~(RunBeforeVerdict /\ MistJogAlive)

\* run_test of gui.py schedules its result screen or its seal-warning screen
GuiOutcomeDelivered == app = "gui" /\ run_outcome = "none" /\ run_outcome' # "none"

\* C36: at the step in which a gui.py run delivers its outcome,
\* camera._running is False, the camera_loop thread of the run is not alive
\* and the camera device is closed.
C36_CameraReleasedAtOutcome ==
    [][ GuiOutcomeDelivered =>
            /\ ~cam_running'
            /\ cam_pc' \notin {"start", "loop", "read"}
            /\ ~camera_open' ]_vars

\* the baseline loop of gui.py has ended: run_test goes on to the statistics
BaselineEnds == app = "gui" /\ rt_pc = "baseline" /\ rt_pc' # "baseline"

\* C37: when the baseline sampling of gui.py ends, NumSamples attempts were
\* made, frames_baseline + read_errors = NumSamples, and frames_baseline is
\* the length of the sample list.
C37_BaselineAttemptsCountedOnce ==
    [][ BaselineEnds =>
            /\ rt_i = NumSamples
            /\ metrics.frames_baseline + metrics.read_errors = NumSamples
            /\ metrics.frames_baseline = Len(samples) ]_vars

\* _mist_on of the misting phase of guiExp.py has been called
ExpMistOnCalled == app = "guiExp" /\ rt_pc = "mist" /\ rt_pc' # "mist"

\* C38: in guiExp.py every call of _mist_on at the start of a misting phase
\* finds the relay pin configured as an output and leaves it HIGH.
C38_RelayDrivenInEveryRun ==
    [][ ExpMistOnCalled => (mist_pin # "UNSET" /\ mist_pin' = "HIGH") ]_vars

====
